---- MODULE Spec2Model ----
(***************************************************************************)
(* mistcss command line driver (the CLI script and core.ts).               *)
(*                                                                         *)
(* The script validates its arguments, optionally starts a chokidar        *)
(* watcher, builds every '*.mist.css' file found by globby, and then runs  *)
(* the clean-up pass.  JavaScript runs one callback at a time, so every    *)
(* synchronous stretch of the script and every event handler is one atomic *)
(* action; file-system requests made through fs/promises run in the thread *)
(* pool and are separate actions that interleave freely.                   *)
(*                                                                         *)
(* Paths and extensions are sequences of one-character strings, so that    *)
(* String.replace with a regular expression and glob matching are computed *)
(* character by character, as the code computes them.                      *)
(***************************************************************************)
EXTENDS Naturals, Sequences, FiniteSets, TLC

\* ------------------------------------------------------------------ bounds
\* Longest list of --target values on the command line.
MaxTargets == 2
\* Most file-system events (edits, deletions) the user causes while watching.
MaxEvents == 3
\* Longest list of --target values in the runs with a user at work.
MaxWatchTargets == 1

\* ----------------------------------------------------------------- strings
DotCss == <<".", "c", "s", "s">>
DotMist == <<".", "m", "i", "s", "t">>
DotMistCss == DotMist \o DotCss
ExtTsx == <<".", "t", "s", "x">>
ExtAstro == <<".", "a", "s", "t", "r", "o">>
ExtSvelte == <<".", "s", "v", "e", "l", "t", "e">>

EndsWith(s, suf) ==
  /\ Len(s) >= Len(suf)
  /\ SubSeq(s, Len(s) - Len(suf) + 1, Len(s)) = suf

DropLast(s, n) == SubSeq(s, 1, Len(s) - n)

ReplaceCssFixedTsx(p, ext) ==
  IF EndsWith(p, DotCss) THEN DropLast(p, Len(DotCss)) \o ExtTsx ELSE p

\* mist.replace(/\.css$/, ext): the dot is escaped, so the literal suffix
\* '.css' is replaced; a string without that suffix is returned unchanged.
ReplaceCss(p, ext) ==
  IF EndsWith(p, DotCss) THEN DropLast(p, Len(DotCss)) \o ext ELSE p

\* file.replace(new RegExp(`.${ext}$`), '.css'): ext itself starts with a
\* dot and neither dot is escaped, so the pattern is two arbitrary
\* characters followed by the letters of the extension, anchored at the end.
ReplaceDotExt(file, ext) ==
  LET letters == Tail(ext)
      n == Len(letters) + 2
  IN IF Len(file) >= n /\ EndsWith(file, letters)
       THEN DropLast(file, n) \o DotCss
       ELSE file

\* globby('**/*' + suffix) over a flat directory: the star matches one or
\* more characters of a file name that does not start with a dot.
GlobStar(suffix, p) ==
  /\ Len(p) > Len(suffix)
  /\ EndsWith(p, suffix)
  /\ p[1] # "."

\* The pattern of the clean-up pass, `**/*.mist.${ext}`.
CleanupSuffix(ext) == DotMist \o <<".">> \o ext

\* path.basename(p, suffix) for a path without directories.
Basename(p, suffix) ==
  IF p = suffix THEN <<>>
  ELSE IF EndsWith(p, suffix) THEN DropLast(p, Len(suffix))
  ELSE p

\* ------------------------------------------------------------------ core.ts
Targets == {"react", "hono", "astro", "vue", "svelte"}
TargetStrs == Targets \cup {"bogus"}

GetExtensionAstroAsTsx(target) ==
  CASE target = "react" -> ExtTsx
    [] target = "hono" -> ExtTsx
    [] target = "astro" -> ExtTsx
    [] target = "vue" -> ExtTsx
    [] target = "svelte" -> ExtSvelte

GetExtension(target) ==
  CASE target = "react" -> ExtTsx
    [] target = "hono" -> ExtTsx
    [] target = "astro" -> ExtAstro
    [] target = "vue" -> ExtTsx
    [] target = "svelte" -> ExtSvelte

\* A call either returns a value, throws, or ends the process.
Return(v) == [kind |-> "return", value |-> v]
Throw(m) == [kind |-> "throw", value |-> m]
Exit(c) == [kind |-> "exit", value |-> c]

GetTargetExits(target) ==
  IF target \in Targets THEN Return(target) ELSE Exit(1)

GetTarget(target) ==
  IF target \in Targets THEN Return(target) ELSE Throw("Invalid target option")

\* ---------------------------------------------------------------- contents
\* The text of an input file: malformed, or a list of component
\* declarations (each named by a number).  Empty is a file of no bytes.
Malformed == [t |-> "src", ok |-> FALSE, decls |-> <<>>]
Source(decls) == [t |-> "src", ok |-> TRUE, decls |-> decls]
Empty == [t |-> "empty"]

\* parse(text): throws on structurally broken input, otherwise one schema
\* per component declared, in order of appearance.
Parse(text) ==
  IF text.ok
    THEN Return([i \in 1..Len(text.decls) |-> [schema |-> text.decls[i]]])
    ELSE Throw("parse error")

\* render(name, schema, flavor) of the emitter modules: the generated text is
\* determined by the emitter, the component name, the schema and the flavor.
Render(emitter, name, schema, hono) ==
  [t |-> "gen", emitter |-> emitter, name |-> name,
   schema |-> schema.schema, hono |-> hono]

EmitterOf(target) ==
  CASE target = "react" -> [emitter |-> "react", hono |-> FALSE]
    [] target = "hono" -> [emitter |-> "react", hono |-> TRUE]
    [] target = "astro" -> [emitter |-> "astro", hono |-> FALSE]
    [] target = "vue" -> [emitter |-> "vue", hono |-> FALSE]
    [] target = "svelte" -> [emitter |-> "svelte", hono |-> FALSE]

\* What one call of createFile does: the emitter calls it makes (with the
\* JavaScript index of the schema passed) and the writeFile requests it
\* starts.  data[0] is data[1] here.
CallLog(data, mist, target, ext, idxs) ==
  LET name == Basename(mist, DotMistCss)
      e == EmitterOf(target)
      results == [k \in 1..Len(idxs) |->
                    Render(e.emitter, name, data[idxs[k] + 1], e.hono)]
  IN [data |-> data, mist |-> mist, target |-> target, ext |-> ext,
      emits |-> [k \in 1..Len(idxs) |->
                   [emitter |-> e.emitter, hono |-> e.hono, index |-> idxs[k]]],
      writes |-> [k \in 1..Len(idxs) |->
                    [path |-> ReplaceCss(mist, ext), content |-> results[k]]],
      errors |-> <<>>]

CreateFileLastSchema(data, mist, target, ext) ==
  IF Len(data) >= 1
    THEN CallLog(data, mist, target, ext, <<Len(data) - 1>>)
    ELSE CallLog(data, mist, target, ext, <<>>)

CreateFileEmptyWrites(data, mist, target, ext) ==
  IF Len(data) >= 1
    THEN CallLog(data, mist, target, ext, <<0>>)
    ELSE [CallLog(data, mist, target, ext, <<>>) EXCEPT
            !.writes = <<[path |-> ReplaceCss(mist, ext), content |-> Empty]>>]

CreateFile(data, mist, target, ext) ==
  IF Len(data) >= 1
    THEN CallLog(data, mist, target, ext, <<0>>)
    ELSE CallLog(data, mist, target, ext, <<>>)

\* createFiles(data, mist, targets): one createFile call per pair, in order.
\* The callback passed to map returns nothing, so the promise createFiles
\* returns waits for none of the writes ("awaits" is empty).
CreateFiles(data, mist, targets) ==
  [calls |-> [i \in 1..Len(targets) |->
                CreateFile(data, mist, targets[i][1], targets[i][2])],
   awaits |-> {}]

\* ------------------------------------------------------------ command line
DirKinds == {"none", "enoent", "file", "dir"}
TargetLists == UNION {[1..n -> TargetStrs] : n \in 1..MaxTargets}

InputA == <<"a">> \o DotMistCss
InputB == <<"b">> \o DotMistCss
\* Texts the input files hold in the runs of the command line.
CliTexts == {Malformed, Source(<<>>), Source(<<1>>), Source(<<2, 1>>)}

\* The two command line scripts of the repository: "cli" calls core.ts,
\* "bin" carries its own copies of createFiles and createFile.
Impls == {"cli", "bin"}

VARIABLES
  impl,          \* which of the two scripts runs
  argv,          \* the command line: directory argument, --target list, --watch
  status,        \* "running" or "exited"
  exitCode,      \* the exit status once exited
  pc,            \* where the top-level script stands
  console,       \* what was printed
  targetWithExt, \* the [target, ext] pairs built by setExtension
  disk,          \* path -> content, for the files that exist
  dirs,          \* paths taken by a directory: writeFile and unlink fail there
  watching,      \* the chokidar watcher is active
  events,        \* chokidar events not yet handed to a handler
  nEnv,          \* edits and deletions the user has made
  nHandled,      \* change events handled so far
  reads,         \* batch files whose readFile has not completed
  globs,         \* clean-up globs (by target index) not yet completed
  ops,           \* fs/promises requests in flight
  calls,         \* the createFile calls of the latest createFiles
  effects,       \* what the process has done: parse, write, delete, watch
  latest,        \* per (input, target index): writes started by change events
  unlinked       \* inputs whose 'unlink' handler has run

vars ==
  <<impl, argv, status, exitCode, pc, console, targetWithExt, disk, dirs,
    watching, events, nEnv, nHandled, reads, globs, ops, calls, effects,
    latest, unlinked>>

Usage == [m |-> "usage", path |-> <<>>]
Msg(m) == [m |-> m, path |-> <<>>]
ErrorFor(path) == [m |-> "Error", path |-> path]

Remove(f, p) == [q \in (DOMAIN f) \ {p} |-> f[q]]
Put(f, p, c) == [q \in (DOMAIN f) \cup {p} |-> IF q = p THEN c ELSE f[q]]

OutPath(mist, i) == ReplaceCss(mist, targetWithExt[i][2])

\* The directory before the run: input a, possibly input b, and possibly
\* leftovers of component c, whose input is gone: its generated files for
\* the selected targets ("orphans"), or files named c.mist.<ext> with the
\* extension's own dot doubled ("doubled").
Leftovers == {"none", "orphans", "doubled"}
ExtsOf(targets) == {GetExtension(t) : t \in {targets[i] : i \in 1..Len(targets)} \cap Targets}
StaleContent(ext) == Render("react", <<"c">>, [schema |-> 1], FALSE)
InitDisk(ta, tb, left, targets) ==
  LET inputs == {InputA} \cup (IF tb = Empty THEN {} ELSE {InputB})
      extra == CASE left = "none" -> {}
                 [] left = "orphans" ->
                      {<<"c">> \o DotMist \o e : e \in ExtsOf(targets)}
                 [] left = "doubled" ->
                      {<<"c">> \o CleanupSuffix(e) : e \in ExtsOf(targets)}
  IN [p \in inputs \cup extra |->
        IF p = InputA THEN ta
        ELSE IF p = InputB THEN tb
        ELSE StaleContent(p)]

\* The state as the script starts, for a command line among args, texts of
\* a among tas, texts of b among tbs (Empty: no such file), leftovers among
\* lefts and, when blocked, possibly a directory where a's first output goes.
InitWith(args, tas, tbs, lefts, blocked) ==
  /\ impl \in Impls
  /\ argv \in args
  /\ \E ta \in tas, tb \in tbs, left \in lefts :
       disk = InitDisk(ta, tb, left, argv.targets)
  /\ dirs \in {{}} \cup (IF blocked
                           THEN {{ReplaceCss(InputA, e)} : e \in ExtsOf(argv.targets)}
                           ELSE {})
  /\ status = "running"
  /\ exitCode = 0
  /\ pc = "args"
  /\ console = {}
  /\ targetWithExt = <<>>
  /\ watching = FALSE
  /\ events = <<>>
  /\ nEnv = 0
  /\ nHandled = 0
  /\ reads = {}
  /\ globs = {}
  /\ ops = {}
  /\ calls = <<>>
  /\ effects = {}
  /\ latest = <<>>
  /\ unlinked = {}

CommandLines == [dir : DirKinds, targets : TargetLists, watch : BOOLEAN]

\* A directory with the one input a and nothing else.
Init == InitWith(CommandLines, CliTexts, {Empty}, {"none"}, FALSE)

\* A directory with the inputs a and b, where a's output may be blocked.
InitBatch ==
  InitWith(CommandLines, {Malformed, Source(<<>>), Source(<<1>>)},
           {Source(<<1>>)}, Leftovers, TRUE)

\* A directory with the one input a, which the user edits and deletes while
\* the process runs.
WatchTargetLists == UNION {[1..n -> TargetStrs] : n \in 1..MaxWatchTargets}
InitWatch ==
  InitWith([dir : DirKinds, targets : WatchTargetLists, watch : BOOLEAN],
           {Source(<<1>>)}, {Empty}, {"none"}, FALSE)

\* ------------------------------------------------------------ process end
\* process.exit(code), or the end of a script with nothing left to wait for.
ExitWith(code, printed) ==
  /\ status' = "exited"
  /\ exitCode' = code
  /\ console' = console \cup printed

\* An uncaught exception: a rejected top-level await, or a rejected promise
\* nobody handles.  Node prints the error, which names the system call and
\* the path it failed on, and exits with status 1.
Uncaught(syscall, path) == [m |-> syscall, path |-> path]
Crash(syscall, path) == ExitWith(1, {Uncaught(syscall, path)})

\* ---------------------------------------------------------------- requests
WriteOp(w, mist, i, origin, seq) ==
  [kind |-> "write", path |-> w.path, content |-> w.content, st |-> "queued",
   detached |-> FALSE, src |-> mist, ti |-> i, origin |-> origin, seq |-> seq]

UnlinkOp(path, mist, i, origin, seq) ==
  [kind |-> "unlink", path |-> path, content |-> Empty, st |-> "queued",
   detached |-> FALSE, src |-> mist, ti |-> i, origin |-> origin, seq |-> seq]

\* The writeFile requests started by the createFile calls of one createFiles.
WritesOf(cs, mist, origin, seq) ==
  UNION {{WriteOp(cs[i].writes[k], mist, i, origin, seq) :
            k \in 1..Len(cs[i].writes)} : i \in 1..Len(cs)}

\* unlink(file, ext) of the clean-up pass: the request it starts, if any.
CleanupUnlink(file, ext, i) ==
  LET mist == ReplaceDotExt(file, ext)
  IN IF mist \notin DOMAIN disk
       THEN {UnlinkOp(mist, mist, i, "cleanup", 0)}
       ELSE {}

\* The clean-up pass starts one glob per [target, ext] pair.
StartCleanup ==
  /\ pc' = "cleanup"
  /\ globs' = 1..Len(targetWithExt)

\* The script has run to its end once every glob and every unlink of the
\* clean-up pass has settled.
CleanupSettled(gs, os) ==
  gs = {} /\ \A o \in os : o.origin # "cleanup"

\* ----------------------------------------------------------------- startup
\* for-each over the --target values: getTarget in a try block, with
\* usage() and process.exit(1) in the catch block.
RECURSIVE ValidateFrom(_, _)
ValidateFrom(targets, i) ==
  IF i > Len(targets) THEN "ok"
  ELSE LET r == GetTarget(targets[i])
       IN CASE r.kind = "exit" -> "exit"
            [] r.kind = "throw" -> "usage"
            [] OTHER -> ValidateFrom(targets, i + 1)

\* The same check as bin.ts writes it: a comparison with the five names.
ValidateBin(targets) ==
  IF \E i \in 1..Len(targets) :
       /\ targets[i] # "react" /\ targets[i] # "hono" /\ targets[i] # "astro"
       /\ targets[i] # "vue" /\ targets[i] # "svelte"
    THEN "usage"
    ELSE "ok"

Validate(targets) ==
  IF impl = "cli" THEN ValidateFrom(targets, 1) ELSE ValidateBin(targets)

\* setExtension(targetStr) for each --target value.
SetExtension(targetStr) ==
  LET target == GetTarget(targetStr).value
  IN <<target, GetExtension(target)>>

\* setExtension(target) of bin.ts, with its own table (its default branch,
\* usage() and process.exit(1), is behind the validation above).
SetExtensionBin(target) ==
  CASE target = "react" -> <<target, ExtTsx>>
    [] target = "hono" -> <<target, ExtTsx>>
    [] target = "astro" -> <<target, ExtAstro>>
    [] target = "vue" -> <<target, ExtTsx>>
    [] target = "svelte" -> <<target, ExtSvelte>>

RenderingMsg(target) == [m |-> "Rendering", path |-> <<target>>]

\* No directory argument.
NoDirectory ==
  /\ status = "running" /\ pc = "args"
  /\ argv.dir = "none"
  /\ ExitWith(1, {Msg("Please provide a directory"), Usage})
  /\ UNCHANGED <<impl, argv, pc, targetWithExt, disk, dirs, watching, events, nEnv,
                 nHandled, reads, globs, ops, calls, effects, latest, unlinked>>

\* fsPromises.stat(dir) is requested and awaited.
StatRequested ==
  /\ status = "running" /\ pc = "args"
  /\ argv.dir # "none"
  /\ pc' = "stat"
  /\ UNCHANGED <<impl, argv, status, exitCode, console, targetWithExt, disk, dirs,
                 watching, events, nEnv, nHandled, reads, globs, ops, calls,
                 effects, latest, unlinked>>

\* stat rejects (no such path): the top-level await throws.
StatRejects ==
  /\ status = "running" /\ pc = "stat"
  /\ argv.dir = "enoent"
  /\ Crash("uncaught stat", <<>>)
  /\ UNCHANGED <<impl, argv, pc, targetWithExt, disk, dirs, watching, events, nEnv,
                 nHandled, reads, globs, ops, calls, effects, latest, unlinked>>

NotADirectory ==
  /\ status = "running" /\ pc = "stat"
  /\ argv.dir = "file"
  /\ ExitWith(1, {Msg("The path provided is not a directory"), Usage})
  /\ UNCHANGED <<impl, argv, pc, targetWithExt, disk, dirs, watching, events, nEnv,
                 nHandled, reads, globs, ops, calls, effects, latest, unlinked>>

\* A --target value getTarget rejects.
InvalidTarget ==
  /\ status = "running" /\ pc = "stat"
  /\ argv.dir = "dir"
  /\ Validate(argv.targets) # "ok"
  /\ IF Validate(argv.targets) = "usage"
       THEN ExitWith(1, {Msg("Invalid render option"), Usage})
       ELSE ExitWith(1, {})
  /\ UNCHANGED <<impl, argv, pc, targetWithExt, disk, dirs, watching, events, nEnv,
                 nHandled, reads, globs, ops, calls, effects, latest, unlinked>>

\* Every --target value is valid: the pairs are built, the directory is
\* entered, the watcher is started if asked for, and globby is called.
Startup ==
  /\ status = "running" /\ pc = "stat"
  /\ argv.dir = "dir"
  /\ Validate(argv.targets) = "ok"
  /\ targetWithExt' = [i \in 1..Len(argv.targets) |->
                         IF impl = "cli" THEN SetExtension(argv.targets[i])
                                         ELSE SetExtensionBin(argv.targets[i])]
  /\ console' = console
       \cup {RenderingMsg(argv.targets[i]) : i \in 1..Len(argv.targets)}
       \cup (IF argv.watch THEN {Msg("Watching for changes")} ELSE {})
  /\ watching' = argv.watch
  /\ effects' = effects \cup (IF argv.watch THEN {"watch"} ELSE {})
  /\ pc' = "glob"
  /\ UNCHANGED <<impl, argv, status, exitCode, disk, dirs, events, nEnv, nHandled,
                 reads, globs, ops, calls, latest, unlinked>>

\* -------------------------------------------------------------- batch build
\* What one batch callback or 'change' handler does with the text it read:
\* parse and, unless parse throws, createFiles.
Build(text, mist) ==
  LET r == Parse(text)
  IN IF r.kind = "throw"
       THEN [calls |-> <<>>, printed |-> {ErrorFor(mist)}]
       ELSE [calls |-> CreateFiles(r.value, mist, targetWithExt).calls,
             printed |-> {}]

\* globby('**/*.mist.css') resolves; every callback of the map starts its
\* readFile.  With no input file the batch is over at once.
GlobDone ==
  /\ status = "running" /\ pc = "glob"
  /\ impl = "cli"
  /\ LET cssFiles == {p \in DOMAIN disk : GlobStar(DotMistCss, p)}
     IN /\ reads' = cssFiles
        /\ IF cssFiles = {}
             THEN StartCleanup
             ELSE pc' = "batch" /\ UNCHANGED globs
  /\ UNCHANGED <<impl, argv, status, exitCode, console, targetWithExt, disk, dirs,
                 watching, events, nEnv, nHandled, ops, calls, effects, latest,
                 unlinked>>

\* bin.ts: globby resolves and createFiles(mist, targets) is called for every
\* file in the same turn; each reads its file with readFileSync, parses it
\* and starts the writes, and returns a promise that waits for none of them,
\* so the clean-up pass starts with the turn's continuation.
RECURSIVE BuildAll(_)
BuildAll(files) ==
  IF files = {} THEN [ops |-> {}, printed |-> {}, calls |-> <<>>]
  ELSE LET mist == CHOOSE m \in files : TRUE
           b == Build(disk[mist], mist)
           rest == BuildAll(files \ {mist})
       IN [ops |-> WritesOf(b.calls, mist, "batch", 0) \cup rest.ops,
           printed |-> b.printed \cup rest.printed,
           calls |-> IF rest.calls = <<>> THEN b.calls ELSE rest.calls]

GlobDoneBin ==
  /\ status = "running" /\ pc = "glob"
  /\ impl = "bin"
  /\ LET cssFiles == {p \in DOMAIN disk : GlobStar(DotMistCss, p)}
         all == BuildAll(cssFiles)
     IN /\ ops' = ops \cup all.ops
        /\ console' = console \cup all.printed
        /\ calls' = IF cssFiles = {} THEN calls ELSE all.calls
        /\ effects' = effects \cup (IF cssFiles = {} THEN {} ELSE {"parse"})
  /\ StartCleanup
  /\ UNCHANGED <<impl, argv, status, exitCode, targetWithExt, disk, dirs,
                 watching, events, nEnv, nHandled, reads, latest, unlinked>>

\* readFile of one batch file settles and its callback runs to its end:
\* a rejected read or a parse error is caught and printed, otherwise
\* createFiles starts the writes and is not waited for.  After the last
\* callback the script goes on to the clean-up pass in the same turn.
ReadDone(mist) ==
  /\ status = "running" /\ pc = "batch"
  /\ mist \in reads
  /\ reads' = reads \ {mist}
  /\ IF mist \notin DOMAIN disk
       THEN /\ console' = console \cup {ErrorFor(mist)}
            /\ UNCHANGED <<ops, calls, effects>>
       ELSE LET b == Build(disk[mist], mist)
            IN /\ console' = console \cup b.printed
               /\ ops' = ops \cup WritesOf(b.calls, mist, "batch", 0)
               /\ calls' = b.calls
               /\ effects' = effects \cup {"parse"}
  /\ IF reads' = {} THEN StartCleanup ELSE UNCHANGED <<pc, globs>>
  /\ UNCHANGED <<impl, argv, status, exitCode, targetWithExt, disk, dirs, watching,
                 events, nEnv, nHandled, latest, unlinked>>

\* ------------------------------------------------------------ clean-up pass
\* One glob of the clean-up pass resolves and unlink(file, ext) is called
\* for every file it found.
CleanupGlobDone(i) ==
  /\ status = "running" /\ pc = "cleanup"
  /\ i \in globs
  /\ LET ext == targetWithExt[i][2]
         files == {p \in DOMAIN disk : GlobStar(CleanupSuffix(ext), p)}
     IN ops' = ops \cup UNION {CleanupUnlink(f, ext, i) : f \in files}
  /\ globs' = globs \ {i}
  /\ pc' = IF CleanupSettled(globs', ops') THEN "idle" ELSE "cleanup"
  /\ UNCHANGED <<impl, argv, status, exitCode, console, targetWithExt, disk, dirs,
                 watching, events, nEnv, nHandled, reads, calls, effects,
                 latest, unlinked>>

\* ------------------------------------------------------------- thread pool
\* writeFile opens its file: created if missing, truncated if present.  A
\* failure rejects the promise createFile returned, which nobody handles.
WriteOpen(w) ==
  /\ status = "running"
  /\ w \in ops /\ w.kind = "write" /\ w.st = "queued"
  /\ IF w.path \in dirs
       THEN /\ Crash("uncaught open", w.path)
            /\ UNCHANGED <<disk, ops, effects>>
       ELSE /\ disk' = Put(disk, w.path, Empty)
            /\ ops' = (ops \ {w}) \cup {[w EXCEPT !.st = "open"]}
            /\ effects' = effects \cup {"write"}
            /\ UNCHANGED <<status, exitCode, console>>
  /\ UNCHANGED <<impl, argv, pc, targetWithExt, dirs, watching, events, nEnv,
                 nHandled, reads, globs, calls, latest, unlinked>>

\* writeFile writes its data and closes.  If the path was unlinked since the
\* open, the data goes to a file no path names any more.
WriteData(w) ==
  /\ status = "running"
  /\ w \in ops /\ w.kind = "write" /\ w.st = "open"
  /\ disk' = IF w.detached THEN disk ELSE Put(disk, w.path, w.content)
  /\ ops' = ops \ {w}
  /\ UNCHANGED <<impl, argv, status, exitCode, pc, console, targetWithExt, dirs,
                 watching, events, nEnv, nHandled, reads, globs, calls, effects,
                 latest, unlinked>>

Detach(os, path) ==
  {IF o.kind = "write" /\ o.st = "open" /\ o.path = path
     THEN [o EXCEPT !.detached = TRUE] ELSE o : o \in os}

\* fsPromises.unlink runs.  A missing path rejects: in the clean-up pass the
\* rejection reaches the top-level await, in the 'unlink' handler nobody
\* handles it.
UnlinkRun(u) ==
  /\ status = "running"
  /\ u \in ops /\ u.kind = "unlink"
  /\ IF u.path \in DOMAIN disk
       THEN /\ disk' = Remove(disk, u.path)
            /\ ops' = Detach(ops \ {u}, u.path)
            /\ effects' = effects \cup {"delete"}
            /\ pc' = IF pc = "cleanup" /\ CleanupSettled(globs, ops')
                       THEN "idle" ELSE pc
            /\ UNCHANGED <<status, exitCode, console>>
       ELSE /\ Crash("uncaught unlink", u.path)
            /\ UNCHANGED <<disk, ops, effects, pc>>
  /\ UNCHANGED <<impl, argv, targetWithExt, dirs, watching, events, nEnv, nHandled,
                 reads, globs, calls, latest, unlinked>>

\* The script has ended, nothing is watched and nothing is in flight.
ProcessExit ==
  /\ status = "running" /\ pc = "idle"
  /\ ~watching /\ ops = {}
  /\ ExitWith(0, {})
  /\ UNCHANGED <<impl, argv, pc, targetWithExt, disk, dirs, watching, events, nEnv,
                 nHandled, reads, globs, ops, calls, effects, latest, unlinked>>

\* ---------------------------------------------------------------- watching
IsInput(p) == GlobStar(DotMistCss, p)

\* The user saves an input file with a new text.
EnvChange(f, t) ==
  /\ status = "running" /\ watching
  /\ nEnv < MaxEvents
  /\ f \in DOMAIN disk /\ IsInput(f)
  /\ t # disk[f]
  /\ disk' = Put(disk, f, t)
  /\ events' = Append(events, [type |-> "change", file |-> f])
  /\ nEnv' = nEnv + 1
  /\ UNCHANGED <<impl, argv, status, exitCode, pc, console, targetWithExt, dirs,
                 watching, nHandled, reads, globs, ops, calls, effects, latest,
                 unlinked>>

\* The user deletes an input file.
EnvUnlink(f) ==
  /\ status = "running" /\ watching
  /\ nEnv < MaxEvents
  /\ f \in DOMAIN disk /\ IsInput(f)
  /\ disk' = Remove(disk, f)
  /\ events' = Append(events, [type |-> "unlink", file |-> f])
  /\ nEnv' = nEnv + 1
  /\ UNCHANGED <<impl, argv, status, exitCode, pc, console, targetWithExt, dirs,
                 watching, nHandled, reads, globs, ops, calls, effects, latest,
                 unlinked>>

Started(cs, mist) ==
  LET keys == {<<mist, i>> : i \in {j \in 1..Len(cs) : cs[j].writes # <<>>}}
  IN [k \in (DOMAIN latest) \cup keys |->
        IF k \in keys
          THEN [n |-> IF k \in DOMAIN latest THEN latest[k].n + 1 ELSE 1,
                content |-> cs[k[2]].writes[1].content]
          ELSE latest[k]]

\* The 'change' handler: readFileSync, parse and createFiles in a try block.
OnChange ==
  /\ status = "running"
  /\ events # <<>> /\ Head(events).type = "change"
  /\ events' = Tail(events)
  /\ nHandled' = nHandled + 1
  /\ LET file == Head(events).file
     IN IF file \notin DOMAIN disk
          THEN /\ console' = console \cup {ErrorFor(file)}
               /\ UNCHANGED <<ops, calls, effects, latest>>
          ELSE LET b == Build(disk[file], file)
               IN /\ console' = console \cup b.printed
                  /\ ops' = ops \cup WritesOf(b.calls, file, "change", nHandled')
                  /\ calls' = b.calls
                  /\ effects' = effects \cup {"parse"}
                  /\ latest' = Started(b.calls, file)
  /\ UNCHANGED <<impl, argv, status, exitCode, pc, targetWithExt, disk, dirs,
                 watching, nEnv, reads, globs, unlinked>>

\* The 'unlink' handler: one fsPromises.unlink per [target, ext] pair, none
\* of them waited for.
OnUnlink ==
  /\ status = "running"
  /\ events # <<>> /\ Head(events).type = "unlink"
  /\ events' = Tail(events)
  /\ LET file == Head(events).file
     IN /\ ops' = ops \cup {UnlinkOp(OutPath(file, i), file, i, "watch", nHandled) :
                              i \in 1..Len(targetWithExt)}
        /\ unlinked' = unlinked \cup {file}
  /\ UNCHANGED <<impl, argv, status, exitCode, pc, console, targetWithExt, disk, dirs,
                 watching, nEnv, nHandled, reads, globs, calls, effects, latest>>

\* Texts the user saves while the watcher runs.
EditTexts == {Source(<<1>>), Source(<<2>>), Malformed}

\* The run of the script with nobody touching the directory, where no
\* unlink is ever requested (the clean-up pass finds no file).
NextClean ==
  \/ NoDirectory
  \/ StatRequested
  \/ StatRejects
  \/ NotADirectory
  \/ InvalidTarget
  \/ Startup
  \/ GlobDone
  \/ GlobDoneBin
  \/ \E m \in reads : ReadDone(m)
  \/ \E i \in globs : CleanupGlobDone(i)
  \/ \E w \in ops : WriteOpen(w)
  \/ \E w \in ops : WriteData(w)
  \/ ProcessExit

\* The run of the script with nobody touching the directory.
NextBuild == NextClean \/ \E u \in ops : UnlinkRun(u)

\* The user's edits and deletions, and the watcher's handlers.
NextWatch ==
  \/ \E f \in DOMAIN disk, t \in EditTexts : EnvChange(f, t)
  \/ \E f \in DOMAIN disk : EnvUnlink(f)
  \/ OnChange
  \/ OnUnlink

Next == NextBuild \/ NextWatch

Spec == Init /\ [][NextClean]_vars
SpecBatch == InitBatch /\ [][NextBuild]_vars
SpecWatch == InitWatch /\ [][Next]_vars

\* ================================================================== claims
TargetIdx == 1..Len(targetWithExt)
TargetAt(i) == targetWithExt[i][1]
ExtAt(i) == targetWithExt[i][2]

\* The extension the documentation gives each target.
ExpectedExt(t) ==
  IF t \in {"react", "hono", "vue"} THEN ExtTsx
  ELSE IF t = "astro" THEN ExtAstro
  ELSE ExtSvelte

\* react, hono and vue are documented to share one extension.
SameFamily(t, u) == t = u \/ {t, u} \subseteq {"react", "hono", "vue"}

HasInvalidTarget == \E i \in 1..Len(argv.targets) : argv.targets[i] \notin Targets

\* Nothing of the run is left to happen: the script has ended and no
\* request is in flight.
Settled == pc = "idle" /\ ops = {}

\* Input a holds at least one schema.
AHasSchemas == disk[InputA].ok /\ disk[InputA].decls # <<>>

\* What target i's emitter returns for input a.
RenderOfA(i) ==
  Render(EmitterOf(TargetAt(i)).emitter, <<"a">>,
         [schema |-> disk[InputA].decls[1]], EmitterOf(TargetAt(i)).hono)

\* C1 (as claimed): once the clean-up pass has finished, no generated file
\* '<name>.mist<ext>' of a selected target is left whose source
\* '<name>.mist.css' does not exist.
C1_OrphansRemoved ==
  pc = "idle" =>
    \A i \in TargetIdx, p \in DOMAIN disk :
      GlobStar(DotMist \o ExtAt(i), p) =>
        (DropLast(p, Len(ExtAt(i))) \o DotCss) \in DOMAIN disk

\* C2 (as claimed): in a batch of the inputs a and b, a failure to read,
\* parse or write a is printed with a's path and does not end the process,
\* and once everything has settled b's output exists for every target.
C2_Isolation ==
  /\ \A m \in console : m.m # "uncaught open"
  /\ (pc \in {"cleanup", "idle"} /\ ~disk[InputA].ok) => ErrorFor(InputA) \in console
  /\ Settled => \A i \in TargetIdx :
       /\ OutPath(InputB, i) \in DOMAIN disk
       /\ disk[OutPath(InputB, i)].t = "gen"

\* C3 (as claimed): when two or more change events on one input have started
\* writes for a target and every write for that input and target has
\* completed, the generated file holds the render of the text read by the
\* latest of those events.
C3_LastWriteWins ==
  \A k \in DOMAIN latest :
    ( /\ status = "running"
      /\ latest[k].n >= 2
      /\ \A j \in TargetIdx : j # k[2] => ExtAt(j) # ExtAt(k[2])
      /\ \A o \in ops : ~(o.kind = "write" /\ o.src = k[1])
      /\ k[1] \notin unlinked
      /\ OutPath(k[1], k[2]) \in DOMAIN disk )
    => disk[OutPath(k[1], k[2])] = latest[k].content

\* C4 (as claimed): once the 'unlink' handler has run for an input and all
\* work in flight for that input has finished, no generated file of that
\* input exists.
C4_DeletionRemovesOutputs ==
  \A f \in unlinked :
    (status = "running" /\ \A o \in ops : o.src # f)
    => \A i \in TargetIdx : OutPath(f, i) \notin DOMAIN disk

\* C5: for a parse result with one or more schemas, each createFile call
\* makes exactly one emitter call, with schema index 0, and starts exactly
\* one write, whose content is the render of the first schema; what is
\* requested and what reaches the disk never depends on a later schema.
C5_FirstSchemaOnly ==
  /\ \A k \in 1..Len(calls) :
       LET c == calls[k]
       IN Len(c.data) >= 1 =>
            /\ Len(c.emits) = 1
            /\ c.emits[1].index = 0
            /\ c.emits[1].emitter = EmitterOf(c.target).emitter
            /\ Len(c.writes) = 1
            /\ c.writes[1].content =
                 Render(c.emits[1].emitter, <<"a">>, c.data[1], c.emits[1].hono)
  /\ \A i \in TargetIdx :
       Cardinality({o \in ops : o.kind = "write" /\ o.ti = i}) <= 1
  /\ \A o \in ops : o.kind = "write" => o.content.schema = disk[InputA].decls[1]
  /\ \A i \in TargetIdx :
       (OutPath(InputA, i) \in DOMAIN disk /\ disk[OutPath(InputA, i)].t = "gen")
       => disk[OutPath(InputA, i)].schema = disk[InputA].decls[1]

\* A two-schema input has been built and its output is on disk.
C5_Witness ==
  /\ Settled
  /\ Len(calls) >= 1 /\ Len(calls[1].data) = 2
  /\ OutPath(InputA, 1) \in DOMAIN disk
  /\ disk[OutPath(InputA, 1)].t = "gen"

\* C6: when the parse of input a yields no schema, createFile calls no
\* emitter and starts no write for any target, nothing is printed about a,
\* no request fails, and no output file of a appears.
C6_EmptySchemas ==
  disk[InputA] = Source(<<>>) =>
    /\ \A k \in 1..Len(calls) : calls[k].emits = <<>> /\ calls[k].writes = <<>>
    /\ \A o \in ops : o.kind # "write"
    /\ \A i \in TargetIdx : OutPath(InputA, i) \notin DOMAIN disk
    /\ ErrorFor(InputA) \notin console
    /\ \A m \in console : m.m # "uncaught open"
    /\ "write" \notin effects

\* createFile has been called for the schema-less input a and the run is over.
C6_Witness ==
  /\ disk[InputA] = Source(<<>>)
  /\ Len(calls) = 2
  /\ status = "exited" /\ exitCode = 0

\* C7: the CLI pairs every target with the documented extension, and every
\* file createFile writes for input p is p with its trailing '.css' replaced
\* by the documented extension of the call's target.
C7_OutputPath ==
  /\ \A i \in TargetIdx : targetWithExt[i] = <<argv.targets[i], ExpectedExt(argv.targets[i])>>
  /\ \A k \in 1..Len(calls) : \A n \in 1..Len(calls[k].writes) :
       calls[k].writes[n].path =
         DropLast(calls[k].mist, Len(DotCss)) \o ExpectedExt(calls[k].target)
  /\ \A o \in ops : o.kind = "write" =>
       o.path = DropLast(o.src, Len(DotCss)) \o ExpectedExt(TargetAt(o.ti))
  /\ \A p \in DOMAIN disk : disk[p].t \in {"gen", "empty"} /\ p[1] = "a" =>
       \E i \in TargetIdx : p = <<"a">> \o DotMist \o ExpectedExt(TargetAt(i))

\* The astro and the vue output of input a are both on disk.
C7_Witness ==
  /\ Settled
  /\ \E i, j \in TargetIdx : TargetAt(i) = "astro" /\ TargetAt(j) = "vue"
  /\ (<<"a">> \o DotMist \o ExtAstro) \in DOMAIN disk
  /\ (<<"a">> \o DotMist \o ExtTsx) \in DOMAIN disk

\* C8 (as claimed): with an invalid --target value the invocation shows the
\* usage text and exits non-zero, having parsed no input, written or deleted
\* no file and started no watcher.
C8_InvalidTargetUsage ==
  HasInvalidTarget =>
    /\ effects = {} /\ ~watching
    /\ status = "exited" => exitCode # 0 /\ Usage \in console

\* C8 (amended): with an invalid --target value the invocation never gets
\* past validation: it parses no input, writes or deletes no file, starts no
\* watcher, and when it exits it exits non-zero, with the usage text shown
\* unless stat of the directory argument rejected first; getTarget throws
\* for exactly the invalid values and never ends the process.
C8_InvalidTargetExit ==
  /\ HasInvalidTarget =>
       /\ effects = {} /\ ~watching /\ ops = {} /\ reads = {}
       /\ pc \in {"args", "stat"}
       /\ status = "exited" =>
            /\ exitCode # 0
            /\ Usage \in console \/ argv.dir = "enoent"
            /\ argv.dir = "dir" => Msg("Invalid render option") \in console
  /\ \A i \in 1..Len(argv.targets) :
       GetTarget(argv.targets[i]).kind =
         IF argv.targets[i] \in Targets THEN "return" ELSE "throw"

\* An existing directory and --watch with an invalid target: usage shown.
C8_Witness ==
  /\ HasInvalidTarget /\ argv.dir = "dir" /\ argv.watch
  /\ status = "exited" /\ exitCode = 1
  /\ Usage \in console

\* C9 (as claimed): when the clean-up pass starts, every write of the batch
\* build has completed.
C9_WritesBeforeCleanup ==
  pc = "cleanup" => \A o \in ops : ~(o.kind = "write" /\ o.origin = "batch")

====
